---------------------------- MODULE Spec2Model ----------------------------
(***************************************************************************)
(* A model of the SFTP web gateway of src/app.py: the SFTPClient wrapper,  *)
(* the process-wide sftp_client reference, and the Flask routes that are   *)
(* served by concurrent threads (app.run(..., threaded=True)).             *)
(*                                                                         *)
(* Python strings are sequences of code points and the contents of remote  *)
(* and local files are sequences of bytes, so that encoding, decoding,     *)
(* prefix tests and case folding are computed, not assumed.                *)
(***************************************************************************)
EXTENDS Integers, Sequences, FiniteSets, TLC

(***************************************************************************)
(* String literals of src/app.py, as code points.                          *)
(***************************************************************************)
\* "/"
S_Slash == <<47>>
\* "//"
S_DoubleSlash == <<47, 47>>
\* "Error:"
S_ErrorColon == <<69, 114, 114, 111, 114, 58>>
\* "Error: "
S_Error == <<69, 114, 114, 111, 114, 58, 32>>
\* "Error: Authentication failed - "
S_AuthFailed == <<69, 114, 114, 111, 114, 58, 32, 65, 117, 116, 104, 101, 110, 116, 105, 99, 97, 116, 105, 111, 110, 32, 102, 97, 105, 108, 101, 100, 32, 45, 32>>
\* "Error: SSH connection failed - "
S_SshFailed == <<69, 114, 114, 111, 114, 58, 32, 83, 83, 72, 32, 99, 111, 110, 110, 101, 99, 116, 105, 111, 110, 32, 102, 97, 105, 108, 101, 100, 32, 45, 32>>
\* "Error: Connection timeout - "
S_Timeout == <<69, 114, 114, 111, 114, 58, 32, 67, 111, 110, 110, 101, 99, 116, 105, 111, 110, 32, 116, 105, 109, 101, 111, 117, 116, 32, 45, 32>>
\* "Error: Directory not found: "
S_DirNotFound == <<69, 114, 114, 111, 114, 58, 32, 68, 105, 114, 101, 99, 116, 111, 114, 121, 32, 110, 111, 116, 32, 102, 111, 117, 110, 100, 58, 32>>
\* "Error: Permission denied: "
S_PermDenied == <<69, 114, 114, 111, 114, 58, 32, 80, 101, 114, 109, 105, 115, 115, 105, 111, 110, 32, 100, 101, 110, 105, 101, 100, 58, 32>>
\* "Error: File not found: "
S_FileNotFound == <<69, 114, 114, 111, 114, 58, 32, 70, 105, 108, 101, 32, 110, 111, 116, 32, 102, 111, 117, 110, 100, 58, 32>>
\* "Error: Directory already exists: "
S_DirExists == <<69, 114, 114, 111, 114, 58, 32, 68, 105, 114, 101, 99, 116, 111, 114, 121, 32, 97, 108, 114, 101, 97, 100, 121, 32, 101, 120, 105, 115, 116, 115, 58, 32>>
\* "Error: Path not found: "
S_PathNotFound == <<69, 114, 114, 111, 114, 58, 32, 80, 97, 116, 104, 32, 110, 111, 116, 32, 102, 111, 117, 110, 100, 58, 32>>
\* "Error: Directory not empty: "
S_DirNotEmpty == <<69, 114, 114, 111, 114, 58, 32, 68, 105, 114, 101, 99, 116, 111, 114, 121, 32, 110, 111, 116, 32, 101, 109, 112, 116, 121, 58, 32>>
\* "Error: Permission denied"
S_PermDeniedBare == <<69, 114, 114, 111, 114, 58, 32, 80, 101, 114, 109, 105, 115, 115, 105, 111, 110, 32, 100, 101, 110, 105, 101, 100>>
\* "Error: '"
S_ErrorQuote == <<69, 114, 114, 111, 114, 58, 32, 39>>
\* "' is a directory"
S_IsADirectory == <<39, 32, 105, 115, 32, 97, 32, 100, 105, 114, 101, 99, 116, 111, 114, 121>>
\* "not empty"
S_NotEmpty == <<110, 111, 116, 32, 101, 109, 112, 116, 121>>
\* "Not connected"
S_NotConnected == <<78, 111, 116, 32, 99, 111, 110, 110, 101, 99, 116, 101, 100>>
\* "Missing path"
S_MissingPath == <<77, 105, 115, 115, 105, 110, 103, 32, 112, 97, 116, 104>>
\* "Missing old or new path"
S_MissingOldNew == <<77, 105, 115, 115, 105, 110, 103, 32, 111, 108, 100, 32, 111, 114, 32, 110, 101, 119, 32, 112, 97, 116, 104>>
\* "No file provided"
S_NoFileProvided == <<78, 111, 32, 102, 105, 108, 101, 32, 112, 114, 111, 118, 105, 100, 101, 100>>
\* "No file selected"
S_NoFileSelected == <<78, 111, 32, 102, 105, 108, 101, 32, 115, 101, 108, 101, 99, 116, 101, 100>>
\* "host, username and password required"
S_Required == <<104, 111, 115, 116, 44, 32, 117, 115, 101, 114, 110, 97, 109, 101, 32, 97, 110, 100, 32, 112, 97, 115, 115, 119, 111, 114, 100, 32, 114, 101, 113, 117, 105, 114, 101, 100>>
\* "Connected successfully"
S_Connected == <<67, 111, 110, 110, 101, 99, 116, 101, 100, 32, 115, 117, 99, 99, 101, 115, 115, 102, 117, 108, 108, 121>>
\* "Socket is closed"
X_SocketClosed == <<83, 111, 99, 107, 101, 116, 32, 105, 115, 32, 99, 108, 111, 115, 101, 100>>
\* "Failure"
X_Failure == <<70, 97, 105, 108, 117, 114, 101>>
\* "Directory not empty"
X_DirNotEmptyText == <<68, 105, 114, 101, 99, 116, 111, 114, 121, 32, 110, 111, 116, 32, 101, 109, 112, 116, 121>>
\* "'NoneType' object has no attribute"
X_NoneType == <<39, 78, 111, 110, 101, 84, 121, 112, 101, 39, 32, 111, 98, 106, 101, 99, 116, 32, 104, 97, 115, 32, 110, 111, 32, 97, 116, 116, 114, 105, 98, 117, 116, 101>>
\* "Authentication failed."
X_AuthText == <<65, 117, 116, 104, 101, 110, 116, 105, 99, 97, 116, 105, 111, 110, 32, 102, 97, 105, 108, 101, 100, 46>>
\* "Unable to open channel."
X_NoChannel == <<85, 110, 97, 98, 108, 101, 32, 116, 111, 32, 111, 112, 101, 110, 32, 99, 104, 97, 110, 110, 101, 108, 46>>

(***************************************************************************)
(* Bounds of the model.                                                    *)
(***************************************************************************)
\* SFTPClient objects that connect requests may build in one run.
MaxClients == 2
\* Entries of a directory listing handed to listdir by the transport.
MaxEntries == 3
\* Segments handed to _join_path, and the length of one segment.
MaxSegments == 3
MaxSegLen == 2

(***************************************************************************)
(* String operations of Python used by the code.                           *)
(***************************************************************************)
\* str.startswith
StartsWith(s, p) == Len(s) >= Len(p) /\ SubSeq(s, 1, Len(p)) = p

\* the `in` operator on strings
Contains(s, p) ==
    \E i \in 1..(Len(s) - Len(p) + 1) : SubSeq(s, i, i + Len(p) - 1) = p

\* str.lower on the letters A-Z (the names of the model are ASCII)
Lower(s) == [i \in 1..Len(s) |-> IF s[i] \in 65..90 THEN s[i] + 32 ELSE s[i]]

\* the order < of Python strings: lexicographic by code point
RECURSIVE StrLess(_, _)
StrLess(a, b) ==
    IF b = <<>> THEN FALSE
    ELSE IF a = <<>> THEN TRUE
    ELSE IF Head(a) # Head(b) THEN Head(a) < Head(b)
    ELSE StrLess(Tail(a), Tail(b))

\* '/'.join(parts)
RECURSIVE JoinSlash(_)
JoinSlash(parts) ==
    IF parts = <<>> THEN <<>>
    ELSE IF Len(parts) = 1 THEN parts[1]
    ELSE parts[1] \o S_Slash \o JoinSlash(Tail(parts))

\* path.replace('//', '/'): one left-to-right pass over non-overlapping matches
RECURSIVE ReplaceDoubleSlash(_)
ReplaceDoubleSlash(s) ==
    IF Len(s) < 2 THEN s
    ELSE IF SubSeq(s, 1, 2) = S_DoubleSlash
         THEN S_Slash \o ReplaceDoubleSlash(SubSeq(s, 3, Len(s)))
         ELSE <<Head(s)>> \o ReplaceDoubleSlash(Tail(s))

\* the loop of _join_path: while '//' in path: path = path.replace('//', '/')
\* a loop that is never entered
LoopAgainNever(path) == FALSE
\* the condition of the while loop (line 74)
LoopAgain(path) == Contains(path, S_DoubleSlash)

RECURSIVE CollapseSlashes(_)
CollapseSlashes(path) ==
    IF LoopAgain(path)
    THEN CollapseSlashes(ReplaceDoubleSlash(path))
    ELSE path

\* SFTPClient._join_path(*parts)
_join_path(parts) == CollapseSlashes(JoinSlash(parts))

(***************************************************************************)
(* UTF-8, for code points below 65536.                                     *)
(***************************************************************************)
\* U+FFFD, what errors='replace' puts in place of an undecodable sequence
Replacement == 65533

EncodeCodePoint(c) ==
    IF c < 128 THEN <<c>>
    ELSE IF c < 2048 THEN <<192 + (c \div 64), 128 + (c % 64)>>
    ELSE <<224 + (c \div 4096), 128 + ((c \div 64) % 64), 128 + (c % 64)>>

\* str.encode('utf-8'), as paramiko's file write does for a str
RECURSIVE Utf8Encode(_)
Utf8Encode(s) ==
    IF s = <<>> THEN <<>> ELSE EncodeCodePoint(Head(s)) \o Utf8Encode(Tail(s))

IsCont(b) == b \in 128..191

\* the second byte a three-byte lead accepts
SecondOk(lead, b) ==
    IF lead = 224 THEN b \in 160..191
    ELSE IF lead = 237 THEN b \in 128..159
    ELSE IsCont(b)

\* bytes.decode('utf-8', errors='replace'): each maximal undecodable part
\* becomes one U+FFFD
RECURSIVE Utf8Decode(_)
Utf8Decode(bs) ==
    IF bs = <<>> THEN <<>>
    ELSE LET b == Head(bs)
             n == Len(bs)
         IN  IF b < 128 THEN <<b>> \o Utf8Decode(Tail(bs))
             ELSE IF b \in 194..223 THEN
                 IF n >= 2 /\ IsCont(bs[2])
                 THEN <<(b - 192) * 64 + (bs[2] - 128)>>
                          \o Utf8Decode(SubSeq(bs, 3, n))
                 ELSE <<Replacement>> \o Utf8Decode(Tail(bs))
             ELSE IF b \in 224..239 THEN
                 IF n >= 2 /\ SecondOk(b, bs[2]) THEN
                     IF n >= 3 /\ IsCont(bs[3])
                     THEN <<(b - 224) * 4096 + (bs[2] - 128) * 64 + (bs[3] - 128)>>
                              \o Utf8Decode(SubSeq(bs, 4, n))
                     ELSE <<Replacement>> \o Utf8Decode(SubSeq(bs, 3, n))
                 ELSE <<Replacement>> \o Utf8Decode(Tail(bs))
             ELSE <<Replacement>> \o Utf8Decode(Tail(bs))

\* f.read() / f.read(max_bytes): cap = -1 stands for max_bytes None
ReadBytes(bs, cap) ==
    IF cap < 0 \/ cap >= Len(bs) THEN bs ELSE SubSeq(bs, 1, cap)

(***************************************************************************)
(* SFTPClient.listdir: the items built from the transport's attributes and *)
(* their sort.                                                             *)
(***************************************************************************)
\* a key that compares the names as they are
SortKeyNoLower(item) == <<IF item.is_dir THEN 0 ELSE 1, item.name>>
\* the key of items.sort: (not i['is_dir'], i['name'].lower())
SortKey(item) == <<IF item.is_dir THEN 0 ELSE 1, Lower(item.name)>>

\* the order < of the key tuples
KeyLess(k1, k2) ==
    \/ k1[1] < k2[1]
    \/ k1[1] = k2[1] /\ StrLess(k1[2], k2[2])

\* list.sort is stable: an item goes after every item whose key is not greater
RECURSIVE InsertSorted(_, _)
InsertSorted(sorted, item) ==
    IF sorted = <<>> THEN <<item>>
    ELSE IF KeyLess(SortKey(item), SortKey(Head(sorted)))
         THEN <<item>> \o sorted
         ELSE <<Head(sorted)>> \o InsertSorted(Tail(sorted), item)

RECURSIVE SortItems(_)
SortItems(items) ==
    IF items = <<>> THEN <<>>
    ELSE InsertSorted(SortItems(SubSeq(items, 1, Len(items) - 1)),
                      items[Len(items)])

\* one item of the listing, from one attribute record of listdir_attr
MakeItem(path, attr) ==
    [name   |-> attr.filename,
     path   |-> _join_path(<<path, attr.filename>>),
     is_dir |-> attr.is_dir,
     size   |-> attr.st_size]

\* the success result of SFTPClient.listdir(path) for the attributes attrs
ListItems(path, attrs) ==
    SortItems([i \in 1..Len(attrs) |-> MakeItem(path, attrs[i])])

(***************************************************************************)
(* The remote server's tree, the request inputs, the threads.              *)
(***************************************************************************)
\* The request threads: Flask serves requests at the same time
\* (threaded=True), and every race of the model is one between two requests.
Threads == {1, 2}
ClientIds == 1..MaxClients

\* "/", "/d", "/d/f", and "/x/y", a path in a directory the account may not search
P_root == <<47>>
P_d == <<47, 100>>
P_df == <<47, 100, 47, 102>>
P_x == <<47, 120>>
P_xy == <<47, 120, 47, 121>>

\* the paths whose state the model tracks, and the paths requests name
TreePaths == {P_d, P_df}
OpPaths == {P_d, P_df, P_xy}
ListPaths == {P_root, P_d, P_xy}

\* file names, for the listing
N_d == <<100>>
N_f == <<102>>
N_x == <<120>>

\* text a write request may carry: "Error:", "ok" and "e-acute"
Contents == {S_ErrorColon, <<111, 107>>, <<233>>}
\* the bytes of an uploaded file: "h" followed by a byte that is not UTF-8
Payloads == {<<104, 255>>}
\* the byte cap of a read request: -1 for none, or one byte
Caps == {-1, 1}
\* the mark of a max parameter that int() does not accept
NotANumber == -2

Absent == [t |-> "absent", b |-> <<>>]
Dir == [t |-> "dir", b |-> <<>>]
File(bytes) == [t |-> "file", b |-> bytes]

VARIABLES
    sftp_client,   \* the global: 0 for None, or the id of an SFTPClient object
    clients,       \* per SFTPClient object: self.client and self.sftp (0 for None)
    nClients,      \* how many SFTPClient objects have been built
    transport,     \* per SSHClient handle: "none", "open", "closed"
    channel,       \* per SFTP channel handle: "none", "open", "closed"
    fs,            \* the remote tree: per path, absent, a directory, or a file
    th,            \* per request thread: where it is in its route, its locals,
                   \* and the primitives and channels its remove or download
                   \* has used
    connected,     \* serial runs: a connect has answered success since start-up
                   \* or the last disconnect
    serial,        \* whether requests are served one after the other
    lastWrite,     \* serial runs: the path and content of the write that just
                   \* succeeded, or <<>>
    attrsA,        \* a directory's attributes in one transport order
    attrsB,        \* the same attributes in another transport order
    itemsA,        \* listdir's result for attrsA (<<>> before the call)
    itemsB,        \* listdir's result for attrsB
    listed,        \* whether listdir has run on attrsA and attrsB
    segments,      \* the parts handed to _join_path
    jpath,         \* _join_path: the local variable path
    loops,         \* _join_path: the passes of the while loop so far
    jpc            \* _join_path: "off", "start", "loop" or "done"

vars == <<sftp_client, clients, nClients, transport, channel, fs, th,
          connected, serial, lastWrite, attrsA, attrsB, itemsA, itemsB, listed,
          segments, jpath, loops, jpc>>
\* what no step of a route changes
joinVars == <<segments, jpath, loops, jpc>>
listVars == <<serial, attrsA, attrsB, itemsA, itemsB, listed, joinVars>>

\* no call of _join_path on its own is under way
JoinOff == segments = <<>> /\ jpath = <<>> /\ loops = 0 /\ jpc = "off"

NoResp == [result |-> "none", code |-> 0, msg |-> <<>>, data |-> <<>>]

\* a thread that serves no request
Idle == [pc |-> "idle", kind |-> "none", self |-> 0, old |-> 0, path |-> <<>>,
         cap |-> -1, st |-> "none", res |-> <<>>, tmp |-> "none",
         wrote |-> FALSE, prims |-> {}, chans |-> {}, resp |-> NoResp]

\* no other thread is serving a request
Alone(w) == \A v \in Threads \ {w} : th[v].pc = "idle"

\* a free thread takes the next request: at any time when the threads run
\* side by side, and only when no request is being served when they are
\* served one after the other
Free(w) == th[w].pc = "idle" /\ (serial => Alone(w))

\* a response leaves at once: while a thread holds one, no thread but it
\* takes a step
NoneDone == \A v \in Threads : th[v].pc # "done"

\* the texts of the write requests: all of Contents when requests are served
\* one after the other, one text when they are served side by side
WriteContents == IF serial THEN Contents ELSE {S_ErrorColon}

\* and likewise the bytes of the uploaded files
UploadPayloads == IF serial THEN Payloads ELSE {Utf8Encode(S_ErrorColon)}

FsOps == {"list", "read", "write", "mkdir", "remove", "rename", "stat",
          "upload", "download"}

(***************************************************************************)
(* The remote server, as paramiko shows it: each primitive either returns  *)
(* or raises.  exc is "" for a return; FileNotFoundError and               *)
(* PermissionError are IOError (OSError) subclasses.                       *)
(***************************************************************************)
Ok(val) == [exc |-> "", text |-> <<>>, val |-> val]
Raise(exc, text) == [exc |-> exc, text |-> text, val |-> <<>>]

IsIOError(r) == r.exc \in {"IOError", "FileNotFoundError", "PermissionError"}

\* paramiko's IOError for the status codes of the server
NoSuchFile == Raise("FileNotFoundError", <<>>)
PermissionDenied == Raise("PermissionError", <<>>)
Failure == Raise("IOError", X_Failure)

\* the account may not search /x: every request below it is refused
Denied(p) == StartsWith(p, P_x \o S_Slash)

ParentOf(p) == IF p = P_df THEN P_d ELSE P_root
IsDirAt(f, p) == p = P_root \/ (p \in TreePaths /\ f[p].t = "dir")
ExistsAt(f, p) == p = P_root \/ (p \in TreePaths /\ f[p].t # "absent")
Children(f, p) == {c \in TreePaths : ParentOf(c) = p /\ f[c].t # "absent"}

\* what self.sftp.<primitive> meets before the server is asked: self.sftp is
\* None (AttributeError), or the channel is closed (paramiko: socket.error)
ChannelOf(o) == clients[o].sftp
Usable(o) == ChannelOf(o) # 0 /\ channel[ChannelOf(o)] = "open"
Unusable(o) ==
    IF ChannelOf(o) = 0 THEN Raise("AttributeError", X_NoneType)
    ELSE Raise("IOError", X_SocketClosed)

\* sftp.stat(path): the type and size of the target
srv_stat(f, p) ==
    IF Denied(p) THEN PermissionDenied
    ELSE IF ~ExistsAt(f, p) THEN NoSuchFile
    ELSE Ok([is_dir |-> IsDirAt(f, p), st_size |-> Len(f[p].b)])

\* sftp.listdir_attr(path): the attribute set; the order is the transport's
ListAttrs(f, p) ==
    IF p = P_root
    THEN {[filename |-> N_x, is_dir |-> TRUE, st_size |-> 0]}
         \cup {[filename |-> N_d, is_dir |-> f[P_d].t = "dir",
                st_size |-> Len(f[P_d].b)] : c \in Children(f, P_root)}
    ELSE {[filename |-> N_f, is_dir |-> f[P_df].t = "dir",
           st_size |-> Len(f[P_df].b)] : c \in Children(f, P_d)}

srv_listdir(f, p) ==
    IF Denied(p) THEN PermissionDenied
    ELSE IF ~IsDirAt(f, p) THEN NoSuchFile
    ELSE Ok(ListAttrs(f, p))

\* sftp.open(path, 'rb') and f.read
srv_read(f, p) ==
    IF Denied(p) THEN PermissionDenied
    ELSE IF ~ExistsAt(f, p) THEN NoSuchFile
    ELSE IF IsDirAt(f, p) THEN Failure
    ELSE Ok(f[p].b)

\* sftp.open(path, 'w'), f.write, close; also sftp.put
srv_write(f, p) ==
    IF Denied(p) THEN PermissionDenied
    ELSE IF ~IsDirAt(f, ParentOf(p)) THEN NoSuchFile
    ELSE IF IsDirAt(f, p) THEN Failure
    ELSE Ok(<<>>)

srv_mkdir(f, p) ==
    IF Denied(p) THEN PermissionDenied
    ELSE IF ~IsDirAt(f, ParentOf(p)) THEN NoSuchFile
    ELSE IF ExistsAt(f, p) THEN Failure
    ELSE Ok(<<>>)

\* the text of the server's status for a directory that is not empty
srv_rmdir(f, p, text) ==
    IF Denied(p) THEN PermissionDenied
    ELSE IF ~IsDirAt(f, p) THEN NoSuchFile
    ELSE IF Children(f, p) # {} THEN Raise("IOError", text)
    ELSE Ok(<<>>)

srv_remove(f, p) ==
    IF Denied(p) THEN PermissionDenied
    ELSE IF ~ExistsAt(f, p) THEN NoSuchFile
    ELSE IF IsDirAt(f, p) THEN Failure
    ELSE Ok(<<>>)

srv_rename(f, old, new) ==
    IF Denied(old) \/ Denied(new) THEN PermissionDenied
    ELSE IF ~ExistsAt(f, old) THEN NoSuchFile
    ELSE IF ~IsDirAt(f, ParentOf(new)) THEN NoSuchFile
    ELSE IF new = old \/ ExistsAt(f, new) \/ ParentOf(new) = old THEN Failure
    ELSE Ok(<<>>)

\* the call of a primitive on object o: the channel decides first
Call(o, answer) == IF Usable(o) THEN answer ELSE Unusable(o)

(***************************************************************************)
(* SFTPClient: connect and close.                                          *)
(***************************************************************************)
\* how connect() may end on the wire: both handles live; no live transport
\* (refused, timed out); or a live transport without an SFTP channel
\* (open_sftp raised, or the handshake failed after the transport came up)
ConnectOutcomes == {"ok", "down", "nosftp"}

\* the except clauses of connect (lines 62-69)
ConnectErrors == {"auth", "ssh", "timeout", "other"}

NoRes == [ok |-> FALSE, msg |-> <<>>]

\* the string connect() returns from an except clause
connect_error(cause) ==
    IF cause = "auth" THEN S_AuthFailed \o X_AuthText
    ELSE IF cause = "ssh" THEN S_SshFailed \o X_NoChannel
    ELSE IF cause = "timeout" THEN S_Timeout
    ELSE S_Error

\* connect() on object o; h is the SSHClient it creates.  self.client is
\* assigned before the handshake, self.sftp only when open_sftp returned.
connect_clients(o, h, outcome) ==
    [clients EXCEPT ![o] = [client |-> h,
                            sftp |-> IF outcome = "ok" THEN h ELSE @.sftp]]
connect_transport(h, outcome) ==
    [transport EXCEPT ![h] = IF outcome \in {"ok", "nosftp"} THEN "open" ELSE @]
connect_channel(h, outcome) ==
    [channel EXCEPT ![h] = IF outcome = "ok" THEN "open" ELSE @]

\* close(): self.sftp.close() then self.client.close(), inside one try whose
\* except clause passes.  A close call that raises has still released its
\* handle; sftpRaises says that self.sftp.close() raises.  Closing the
\* SSHClient closes the channels of its transport.
CanRaise(o) == clients[o].sftp # 0 /\ channel[clients[o].sftp] = "open"

close_channel(o, sftpRaises) ==
    LET sf == clients[o].sftp
        cl == clients[o].client
        c1 == IF sf # 0 THEN [channel EXCEPT ![sf] = "closed"] ELSE channel
    IN  IF cl # 0 /\ ~sftpRaises /\ c1[cl] = "open"
        THEN [c1 EXCEPT ![cl] = "closed"] ELSE c1

close_transport(o, sftpRaises) ==
    LET cl == clients[o].client
    IN  IF cl # 0 /\ ~sftpRaises
        THEN [transport EXCEPT ![cl] = "closed"] ELSE transport

(***************************************************************************)
(* The threads: a request ends in "done" holding its response, and the     *)
(* thread is free again after Return.                                      *)
(***************************************************************************)
Resp(result, code, msg, data) ==
    [result |-> result, code |-> code, msg |-> msg, data |-> data]
Success(data) == Resp("success", 200, <<>>, data)
\* an exception no route catches: Flask answers 500 without a JSON result
Fault == Resp("fault", 500, <<>>, <<>>)
NotConnected == Resp("failure", 400, S_NotConnected, <<>>)

\* thread w ends its request with response r, its locals as in rec; a
\* connect request still names the client object it built
End(w, rec, r) ==
    th' = [th EXCEPT ![w] = [rec EXCEPT !.pc = "done",
                                        !.self = IF rec.kind = "connect" THEN @ ELSE 0,
                                        !.resp = r]]
Goto(w, rec, pc) == th' = [th EXCEPT ![w] = [rec EXCEPT !.pc = pc]]

\* a request of the given kind arrives at a free thread; when requests are
\* served one after the other, connect and disconnect remember the session
\* that was active on arrival
Begin(w, kind) ==
    [Idle EXCEPT !.kind = kind,
                 !.old = IF serial /\ kind \in {"connect", "disconnect"}
                         THEN sftp_client ELSE 0]

\* connect requests that may still build an SFTPClient object
Building == {v \in Threads : th[v].pc \in {"c_close", "c_new"}}

\* what a failed connect leaves in the global (sftp_client = None)
AfterFailedConnectKept(o) == o
AfterFailedConnect(o) == 0

(***************************************************************************)
(* connect_route                                                           *)
(***************************************************************************)
\* a route that closes the existing connection before it looks at the
\* parameters: lines 233-238 ahead of lines 230-231
ConnectCloseThenValidate(w) ==
    /\ NoneDone
    /\ Free(w)
    /\ nClients + Cardinality(Building) < MaxClients
    /\ IF sftp_client # 0
       THEN /\ channel' = close_channel(sftp_client, FALSE)
            /\ transport' = close_transport(sftp_client, FALSE)
       ELSE UNCHANGED <<channel, transport>>
    /\ \E present \in BOOLEAN :
         IF present
         THEN Goto(w, Begin(w, "connect"), "c_new")
         ELSE End(w, Begin(w, "connect"), Resp("failure", 400, S_Required, <<>>))
    /\ lastWrite' = <<>>
    /\ UNCHANGED <<listVars, sftp_client, clients, nClients, fs, connected>>

\* lines 224-231: the presence check of host, username and password
ConnectValidate(w) ==
    /\ NoneDone
    /\ Free(w)
    /\ nClients + Cardinality(Building) < MaxClients
    /\ \E present \in BOOLEAN :
         IF present
         THEN Goto(w, Begin(w, "connect"), "c_close")
         ELSE End(w, Begin(w, "connect"), Resp("failure", 400, S_Required, <<>>))
    /\ lastWrite' = <<>>
    /\ UNCHANGED <<listVars, sftp_client, clients, nClients, transport, channel, fs, connected>>

\* lines 233-238: close the existing connection, if any
ConnectCloseOld(w) ==
    /\ NoneDone
    /\ th[w].pc = "c_close"
    /\ IF sftp_client # 0
       THEN \E sftpRaises \in {FALSE, CanRaise(sftp_client)} :
              /\ channel' = close_channel(sftp_client, sftpRaises)
              /\ transport' = close_transport(sftp_client, sftpRaises)
       ELSE UNCHANGED <<channel, transport>>
    /\ Goto(w, th[w], "c_new")
    /\ UNCHANGED <<listVars, sftp_client, clients, nClients, fs, connected, lastWrite>>

\* line 240: SFTPClient(host, port, username, password); int(port) raises
\* for a port that is no number, before the global is assigned
ConnectNew(w) ==
    /\ NoneDone
    /\ th[w].pc = "c_new"
    /\ \E portOk \in BOOLEAN :
         IF portOk
         THEN /\ nClients' = nClients + 1
              /\ sftp_client' = nClients + 1
              /\ Goto(w, [th[w] EXCEPT !.self = nClients + 1], "c_call")
         ELSE /\ End(w, th[w], Fault)
              /\ UNCHANGED <<nClients, sftp_client>>
    /\ UNCHANGED <<listVars, clients, transport, channel, fs, connected, lastWrite>>

\* line 241: res = sftp_client.connect(), on the object the global holds now
ConnectCall(w) ==
    /\ NoneDone
    /\ th[w].pc = "c_call"
    /\ IF sftp_client = 0
       THEN /\ End(w, th[w], Fault)
            /\ UNCHANGED <<clients, transport, channel>>
       ELSE \E outcome \in ConnectOutcomes :
              /\ clients' = connect_clients(sftp_client, th[w].self, outcome)
              /\ transport' = connect_transport(th[w].self, outcome)
              /\ channel' = connect_channel(th[w].self, outcome)
              /\ Goto(w, [th[w] EXCEPT !.res = [NoRes EXCEPT !.ok = outcome = "ok"]],
                      "c_fin")
    /\ UNCHANGED <<listVars, sftp_client, nClients, fs, connected, lastWrite>>

\* lines 243-247; the text of a failure is the one connect() returned
ConnectFinish(w) ==
    /\ NoneDone
    /\ th[w].pc = "c_fin"
    /\ IF th[w].res.ok
       THEN /\ End(w, th[w], Resp("success", 200, S_Connected, <<>>))
            /\ connected' = serial
            /\ UNCHANGED sftp_client
       ELSE /\ sftp_client' = AfterFailedConnect(sftp_client)
            /\ \E cause \in ConnectErrors :
                 End(w, th[w], Resp("failure", 500, connect_error(cause), <<>>))
            /\ UNCHANGED connected
    /\ UNCHANGED <<listVars, clients, nClients, transport, channel, fs, lastWrite>>

(***************************************************************************)
(* disconnect_route                                                        *)
(***************************************************************************)
\* lines 458-462: if sftp_client: sftp_client.close()
DisconnectClose(w) ==
    /\ NoneDone
    /\ Free(w)
    /\ IF sftp_client # 0
       THEN /\ \E sftpRaises \in {FALSE, CanRaise(sftp_client)} :
                 /\ channel' = close_channel(sftp_client, sftpRaises)
                 /\ transport' = close_transport(sftp_client, sftpRaises)
            /\ Goto(w, Begin(w, "disconnect"), "d_clear")
            /\ UNCHANGED connected
       ELSE /\ End(w, Begin(w, "disconnect"), Success(<<>>))
            /\ connected' = FALSE
            /\ UNCHANGED <<channel, transport>>
    /\ lastWrite' = <<>>
    /\ UNCHANGED <<listVars, sftp_client, clients, nClients, fs>>

\* lines 463-464: sftp_client = None, and the answer
DisconnectClear(w) ==
    /\ NoneDone
    /\ th[w].pc = "d_clear"
    /\ sftp_client' = 0
    /\ connected' = FALSE
    /\ End(w, th[w], Success(<<>>))
    /\ UNCHANGED <<listVars, clients, nClients, transport, channel, fs, lastWrite>>

(***************************************************************************)
(* SFTPClient: the file operations.  Each takes the object o it runs on    *)
(* and gives the value the method returns; the ones that change the remote *)
(* tree give the tree as well.                                             *)
(***************************************************************************)
\* the primitives a method reaches: none when self.sftp is None
Attempt(o, names) == IF ChannelOf(o) # 0 THEN names ELSE {}

\* every arrangement of the set S as a sequence: the order of the transport
Orders(S) ==
    {s \in [1..Cardinality(S) -> S] :
        \A i, j \in 1..Cardinality(S) : i # j => s[i] # s[j]}

\* listdir: the except clauses (lines 93-98)
listdir_error(r, path) ==
    IF r.exc = "FileNotFoundError" THEN S_DirNotFound \o path
    ELSE IF r.exc = "PermissionError" THEN S_PermDenied \o path
    ELSE S_Error \o r.text

\* read_file (lines 100-110): the decoded text, or an error string
read_file(o, path, cap) ==
    LET r == Call(o, srv_read(fs, path))
    IN  IF r.exc = "" THEN Utf8Decode(ReadBytes(r.val, cap))
        ELSE IF r.exc = "FileNotFoundError" THEN S_FileNotFound \o path
        ELSE IF r.exc = "PermissionError" THEN S_PermDenied \o path
        ELSE S_Error \o r.text

\* api_read's test of the returned string (line 279)
ReadIsContent(result) == ~StartsWith(result, S_ErrorColon)

\* write_file (lines 112-123)
write_file(o, path, content) ==
    LET r == Call(o, srv_write(fs, path))
    IN  IF r.exc = "" THEN [ok |-> TRUE, msg |-> <<>>]
        ELSE IF r.exc = "PermissionError"
             THEN [ok |-> FALSE, msg |-> S_PermDenied \o path]
        ELSE [ok |-> FALSE, msg |-> S_Error \o r.text]

\* the tree after f.write(content): paramiko encodes a str as UTF-8
Written(path, content) == [fs EXCEPT ![path] = File(Utf8Encode(content))]

\* mkdir (lines 125-134)
mkdir(o, path) ==
    LET r == Call(o, srv_mkdir(fs, path))
    IN  IF r.exc = "" THEN [ok |-> TRUE, msg |-> <<>>]
        ELSE IF r.exc = "FileExistsError"
             THEN [ok |-> FALSE, msg |-> S_DirExists \o path]
        ELSE IF r.exc = "PermissionError"
             THEN [ok |-> FALSE, msg |-> S_PermDenied \o path]
        ELSE [ok |-> FALSE, msg |-> S_Error \o r.text]

\* remove, first part (lines 138-141): the inner try around sftp.stat
remove_stat(o, path) == Call(o, srv_stat(fs, path))

\* remove, second part (lines 143-155): rmdir or remove by the type seen,
\* and the outer except clauses
remove_act(o, path, isDir, text) ==
    LET r == Call(o, IF isDir THEN srv_rmdir(fs, path, text)
                     ELSE srv_remove(fs, path))
    IN  IF r.exc = "" THEN [ok |-> TRUE, msg |-> <<>>]
        ELSE IF r.exc = "PermissionError"
             THEN [ok |-> FALSE, msg |-> S_PermDenied \o path]
        ELSE IF IsIOError(r)
             THEN IF Contains(Lower(r.text), S_NotEmpty)
                  THEN [ok |-> FALSE, msg |-> S_DirNotEmpty \o path]
                  ELSE [ok |-> FALSE, msg |-> S_Error \o r.text]
        ELSE [ok |-> FALSE, msg |-> S_Error \o r.text]

\* rename (lines 157-166)
rename(o, old, new) ==
    LET r == Call(o, srv_rename(fs, old, new))
    IN  IF r.exc = "" THEN [ok |-> TRUE, msg |-> <<>>]
        ELSE IF r.exc = "FileNotFoundError"
             THEN [ok |-> FALSE, msg |-> S_FileNotFound \o old]
        ELSE IF r.exc = "PermissionError"
             THEN [ok |-> FALSE, msg |-> S_PermDeniedBare]
        ELSE [ok |-> FALSE, msg |-> S_Error \o r.text]

\* upload_local (lines 168-175): sftp.put
upload_local(o, remote_path) ==
    LET r == Call(o, srv_write(fs, remote_path))
    IN  IF r.exc = "" THEN [ok |-> TRUE, msg |-> <<>>]
        ELSE IF r.exc = "PermissionError"
             THEN [ok |-> FALSE, msg |-> S_PermDenied \o remote_path]
        ELSE [ok |-> FALSE, msg |-> S_Error \o r.text]

\* download_to_local (lines 177-189): the except clauses
download_error(r, remote_path) ==
    IF r.exc = "FileNotFoundError" THEN S_FileNotFound \o remote_path
    ELSE IF r.exc = "PermissionError" THEN S_PermDenied \o remote_path
    ELSE S_Error \o r.text

\* download_to_local, line 180: whether the method stops at a directory
StopsAtDirectoryNever(st) == FALSE
StopsAtDirectory(st) == st.is_dir

\* stat (lines 191-203)
stat(o, path) ==
    LET r == Call(o, srv_stat(fs, path))
    IN  IF r.exc = ""
        THEN [ok |-> TRUE, msg |-> <<>>,
              info |-> [size |-> r.val.st_size, is_dir |-> r.val.is_dir]]
        ELSE IF r.exc = "FileNotFoundError"
             THEN [ok |-> FALSE, msg |-> S_PathNotFound \o path, info |-> <<>>]
        ELSE [ok |-> FALSE, msg |-> S_Error \o r.text, info |-> <<>>]

(***************************************************************************)
(* The nine routes.  A route's first step runs from the arrival of the     *)
(* request to just before it reads the global again for the method call;   *)
(* the call step reads the global, runs the method and answers.            *)
(***************************************************************************)
Failed(code, msg) == Resp("failure", code, msg, <<>>)

\* the steps that neither touch the session nor the remote tree
OnlyThread == UNCHANGED <<listVars, sftp_client, clients, nClients, transport, channel,
                          fs, connected>>

\* the arrival of a request that needs nothing but a session
Arrive(w, kind, next) ==
    /\ NoneDone
    /\ Free(w)
    /\ IF sftp_client = 0
       THEN End(w, Begin(w, kind), NotConnected)
       ELSE Goto(w, Begin(w, kind), next)
    /\ lastWrite' = <<>>
    /\ OnlyThread

\* the arrival of a request that must name a path (or two)
ArriveWithPath(w, kind, next, missingMsg) ==
    /\ NoneDone
    /\ Free(w)
    /\ IF sftp_client = 0
       THEN End(w, Begin(w, kind), NotConnected)
       ELSE \E present \in BOOLEAN :
              IF present THEN Goto(w, Begin(w, kind), next)
              ELSE End(w, Begin(w, kind), Failed(400, missingMsg))
    /\ lastWrite' = IF kind = "read" THEN lastWrite ELSE <<>>
    /\ OnlyThread

\* ---- /api/list (lines 250-262)
api_list(w) == Arrive(w, "list", "list")

api_list_call(w) ==
    /\ NoneDone
    /\ th[w].pc = "list"
    /\ IF sftp_client = 0 THEN End(w, th[w], Fault)
       ELSE \E path \in ListPaths :
              LET o == sftp_client
                  r == Call(o, srv_listdir(fs, path))
                  me == [th[w] EXCEPT !.self = o, !.path = path,
                                      !.prims = Attempt(o, {"listdir_attr"})]
              IN  IF r.exc = ""
                  THEN \E attrs \in Orders(r.val) :
                         End(w, me, Success(ListItems(path, attrs)))
                  ELSE End(w, me, Failed(500, listdir_error(r, path)))
    /\ UNCHANGED <<listVars, lastWrite, sftp_client, clients, nClients, transport, channel,
                   fs, connected>>

\* ---- /api/read (lines 265-282): int(max) raises for a cap that is no number
api_read(w) ==
    /\ NoneDone
    /\ Free(w)
    /\ IF sftp_client = 0
       THEN End(w, Begin(w, "read"), NotConnected)
       ELSE \E present \in BOOLEAN, capIsNumber \in BOOLEAN :
              IF ~present
              THEN End(w, Begin(w, "read"), Failed(400, S_MissingPath))
              ELSE IF ~capIsNumber
              THEN End(w, [Begin(w, "read") EXCEPT !.cap = NotANumber], Fault)
              ELSE Goto(w, Begin(w, "read"), "read")
    /\ UNCHANGED lastWrite
    /\ OnlyThread

api_read_call(w) ==
    /\ NoneDone
    /\ th[w].pc = "read"
    /\ IF sftp_client = 0 THEN End(w, th[w], Fault)
       ELSE \E path \in OpPaths, cap \in Caps :
              LET o == sftp_client
                  result == read_file(o, path, cap)
                  me == [th[w] EXCEPT !.self = o, !.path = path, !.cap = cap,
                                      !.prims = Attempt(o, {"open"})]
              IN  IF ReadIsContent(result)
                  THEN End(w, me, Success(result))
                  ELSE End(w, me, Failed(500, result))
    /\ UNCHANGED <<listVars, lastWrite, sftp_client, clients, nClients, transport, channel,
                   fs, connected>>

\* ---- /api/write (lines 285-303)
api_write(w) == ArriveWithPath(w, "write", "write", S_MissingPath)

api_write_call(w) ==
    /\ NoneDone
    /\ th[w].pc = "write"
    /\ IF sftp_client = 0
       THEN /\ End(w, th[w], Fault)
            /\ UNCHANGED <<fs, lastWrite>>
       ELSE \E path \in OpPaths, content \in WriteContents :
              LET o == sftp_client
                  res == write_file(o, path, content)
                  me == [th[w] EXCEPT !.self = o, !.path = path,
                                      !.prims = Attempt(o, {"open"})]
              IN  IF res.ok
                  THEN /\ fs' = Written(path, content)
                       /\ lastWrite' = IF serial THEN <<path, content>> ELSE <<>>
                       /\ End(w, me, Success(<<>>))
                  ELSE /\ UNCHANGED <<fs, lastWrite>>
                       /\ End(w, me, Failed(500, res.msg))
    /\ UNCHANGED <<listVars, sftp_client, clients, nClients, transport, channel, connected>>

\* ---- /api/mkdir (lines 306-323)
api_mkdir(w) == ArriveWithPath(w, "mkdir", "mkdir", S_MissingPath)

api_mkdir_call(w) ==
    /\ NoneDone
    /\ th[w].pc = "mkdir"
    /\ IF sftp_client = 0
       THEN /\ End(w, th[w], Fault)
            /\ UNCHANGED fs
       ELSE \E path \in OpPaths :
              LET o == sftp_client
                  res == mkdir(o, path)
                  me == [th[w] EXCEPT !.self = o, !.path = path,
                                      !.prims = Attempt(o, {"mkdir"})]
              IN  IF res.ok
                  THEN /\ fs' = [fs EXCEPT ![path] = Dir]
                       /\ End(w, me, Success(<<>>))
                  ELSE /\ UNCHANGED fs
                       /\ End(w, me, Failed(500, res.msg))
    /\ UNCHANGED <<listVars, lastWrite, sftp_client, clients, nClients, transport, channel,
                   connected>>

\* ---- /api/rename (lines 346-364)
api_rename(w) == ArriveWithPath(w, "rename", "rename", S_MissingOldNew)

api_rename_call(w) ==
    /\ NoneDone
    /\ th[w].pc = "rename"
    /\ IF sftp_client = 0
       THEN /\ End(w, th[w], Fault)
            /\ UNCHANGED fs
       ELSE \E old \in OpPaths, new \in OpPaths :
              LET o == sftp_client
                  res == rename(o, old, new)
                  me == [th[w] EXCEPT !.self = o, !.path = old,
                                      !.prims = Attempt(o, {"rename"})]
              IN  IF res.ok
                  THEN /\ fs' = [fs EXCEPT ![new] = fs[old], ![old] = Absent]
                       /\ End(w, me, Success(<<>>))
                  ELSE /\ UNCHANGED fs
                       /\ End(w, me, Failed(500, res.msg))
    /\ UNCHANGED <<listVars, lastWrite, sftp_client, clients, nClients, transport, channel,
                   connected>>

\* ---- /api/stat (lines 437-452)
api_stat(w) == ArriveWithPath(w, "stat", "stat", S_MissingPath)

api_stat_call(w) ==
    /\ NoneDone
    /\ th[w].pc = "stat"
    /\ IF sftp_client = 0 THEN End(w, th[w], Fault)
       ELSE \E path \in OpPaths :
              LET o == sftp_client
                  res == stat(o, path)
                  me == [th[w] EXCEPT !.self = o, !.path = path,
                                      !.prims = Attempt(o, {"stat"})]
              IN  IF res.ok
                  THEN End(w, me, Success(res.info))
                  ELSE End(w, me, Failed(500, res.msg))
    /\ UNCHANGED <<listVars, lastWrite, sftp_client, clients, nClients, transport, channel,
                   fs, connected>>

\* ---- /api/remove (lines 326-343)
\* the text some servers send for a directory that is not empty; OpenSSH
\* sends "Failure"
RmdirTexts == {X_Failure, X_DirNotEmptyText}

\* what remove returns when sftp.stat raised (lines 140-141, 154-155)
remove_stat_error(r, path) ==
    IF IsIOError(r) THEN S_PathNotFound \o path ELSE S_Error \o r.text

api_remove(w) == ArriveWithPath(w, "remove", "remove", S_MissingPath)

api_remove_call(w) ==
    /\ NoneDone
    /\ th[w].pc = "remove"
    /\ IF sftp_client = 0 THEN End(w, th[w], Fault)
       ELSE \E path \in OpPaths :
              LET o == sftp_client
                  r == remove_stat(o, path)
                  me == [th[w] EXCEPT !.self = o, !.path = path,
                                      !.prims = Attempt(o, {"stat"}),
                                      !.chans = Attempt(o, {ChannelOf(o)})]
              IN  IF r.exc = ""
                  THEN Goto(w, [me EXCEPT !.st = IF r.val.is_dir THEN "dir"
                                                 ELSE "file"], "rm_act")
                  ELSE End(w, me, Failed(500, remove_stat_error(r, path)))
    /\ UNCHANGED <<listVars, lastWrite, sftp_client, clients, nClients, transport, channel,
                   fs, connected>>

api_remove_act(w) ==
    /\ NoneDone
    /\ th[w].pc = "rm_act"
    /\ \E text \in RmdirTexts :
         LET o == th[w].self
             path == th[w].path
             isDir == th[w].st = "dir"
             res == remove_act(o, path, isDir, text)
             me == [th[w] EXCEPT !.prims = @ \cup
                       Attempt(o, {IF isDir THEN "rmdir" ELSE "remove"}),
                                 !.chans = @ \cup Attempt(o, {ChannelOf(o)})]
         IN  IF res.ok
             THEN /\ fs' = [fs EXCEPT ![path] = Absent]
                  /\ End(w, me, Success(<<>>))
             ELSE /\ UNCHANGED fs
                  /\ End(w, me, Failed(500, res.msg))
    /\ UNCHANGED <<listVars, lastWrite, sftp_client, clients, nClients, transport, channel,
                   connected>>

\* ---- /api/upload (lines 367-398)
\* str.rstrip('/')
RECURSIVE RStripSlash(_)
RStripSlash(s) ==
    IF s # <<>> /\ s[Len(s)] = 47 THEN RStripSlash(SubSeq(s, 1, Len(s) - 1)) ELSE s

\* werkzeug's secure_filename on ASCII names: separators become blanks, the
\* words are joined by "_", other characters go, "." and "_" are stripped
\* from both ends
RECURSIVE JoinWords(_, _)
JoinWords(s, pending) ==
    IF s = <<>> THEN <<>>
    ELSE IF Head(s) \in {32, 47} THEN JoinWords(Tail(s), pending)
    ELSE (IF pending THEN <<95>> ELSE <<>>) \o <<Head(s)>>
         \o (IF Len(s) >= 2 /\ s[2] \in {32, 47}
             THEN JoinWords(Tail(s), TRUE)
             ELSE JoinWords(Tail(s), FALSE))

RECURSIVE StripDotUnderscore(_)
StripDotUnderscore(s) ==
    IF s # <<>> /\ Head(s) \in {46, 95} THEN StripDotUnderscore(Tail(s))
    ELSE IF s # <<>> /\ s[Len(s)] \in {46, 95}
         THEN StripDotUnderscore(SubSeq(s, 1, Len(s) - 1))
    ELSE s

secure_filename(name) ==
    StripDotUnderscore(
        SelectSeq(JoinWords(name, FALSE),
                  LAMBDA c : c \in (48..57) \cup (65..90) \cup (97..122) \cup {45, 46, 95}))

\* line 382
UploadPath(remote_dir, filename) ==
    RStripSlash(remote_dir) \o S_Slash \o secure_filename(filename)

\* the target directories and the file names upload requests carry:
\* "/d", "/d/", "/x" and "f", "../f"
UploadDirs == {P_d, P_d \o S_Slash, P_x}
UploadNames == {N_f, <<46, 46, 47, 102>>}

\* os.remove(tmp) inside try/except: the file is gone afterwards
os_remove(tmp) == "none"

api_upload(w) ==
    /\ NoneDone
    /\ Free(w)
    /\ IF sftp_client = 0
       THEN End(w, Begin(w, "upload"), NotConnected)
       ELSE \E form \in {"nofile", "noname", "file"} :
              IF form = "nofile"
              THEN End(w, Begin(w, "upload"), Failed(400, S_NoFileProvided))
              ELSE IF form = "noname"
              THEN End(w, Begin(w, "upload"), Failed(400, S_NoFileSelected))
              ELSE \E remote_dir \in UploadDirs, filename \in UploadNames :
                     Goto(w, [Begin(w, "upload") EXCEPT
                                 !.path = UploadPath(remote_dir, filename),
                                 !.tmp = "data", !.wrote = TRUE], "upload")
    /\ lastWrite' = <<>>
    /\ OnlyThread

api_upload_call(w) ==
    /\ NoneDone
    /\ th[w].pc = "upload"
    /\ IF sftp_client = 0
       THEN /\ End(w, [th[w] EXCEPT !.tmp = os_remove(@)], Fault)
            /\ UNCHANGED fs
       ELSE \E payload \in UploadPayloads :
              LET o == sftp_client
                  res == upload_local(o, th[w].path)
                  me == [th[w] EXCEPT !.self = o, !.tmp = os_remove(@),
                                      !.prims = Attempt(o, {"put"})]
              IN  IF res.ok
                  THEN /\ fs' = [fs EXCEPT ![th[w].path] = File(payload)]
                       /\ End(w, me, Success(<<>>))
                  ELSE /\ UNCHANGED fs
                       /\ End(w, me, Failed(500, res.msg))
    /\ UNCHANGED <<listVars, lastWrite, sftp_client, clients, nClients, transport, channel,
                   connected>>

\* ---- /api/download (lines 401-434)
api_download(w) ==
    /\ NoneDone
    /\ Free(w)
    /\ IF sftp_client = 0
       THEN End(w, Begin(w, "download"), NotConnected)
       ELSE \E present \in BOOLEAN :
              IF present
              THEN Goto(w, [Begin(w, "download") EXCEPT !.tmp = "empty"], "download")
              ELSE End(w, Begin(w, "download"), Failed(400, S_MissingPath))
    /\ lastWrite' = <<>>
    /\ OnlyThread

\* line 413 up to sftp.stat and the directory test of download_to_local
api_download_call(w) ==
    /\ NoneDone
    /\ th[w].pc = "download"
    /\ IF sftp_client = 0 THEN End(w, th[w], Fault)
       ELSE \E path \in OpPaths :
              LET o == sftp_client
                  r == Call(o, srv_stat(fs, path))
                  me == [th[w] EXCEPT !.self = o, !.path = path,
                                      !.prims = Attempt(o, {"stat"}),
                                      !.chans = Attempt(o, {ChannelOf(o)})]
                  gone == [me EXCEPT !.tmp = os_remove(@)]
              IN  IF r.exc # ""
                  THEN End(w, gone, Failed(500, download_error(r, path)))
                  ELSE IF StopsAtDirectory(r.val)
                  THEN End(w, [gone EXCEPT !.st = "dir"],
                           Failed(500, S_ErrorQuote \o path \o S_IsADirectory))
                  ELSE Goto(w, [me EXCEPT !.st = IF r.val.is_dir THEN "dir"
                                                 ELSE "file"], "dl_get")
    /\ UNCHANGED <<listVars, lastWrite, sftp_client, clients, nClients, transport, channel,
                   fs, connected>>

\* sftp.get, then send_file and the removal of the staging file
api_download_get(w) ==
    /\ NoneDone
    /\ th[w].pc = "dl_get"
    /\ LET o == th[w].self
           path == th[w].path
           r == Call(o, srv_read(fs, path))
           me == [th[w] EXCEPT !.prims = @ \cup Attempt(o, {"get"}),
                               !.chans = @ \cup Attempt(o, {ChannelOf(o)})]
       IN  IF r.exc = ""
           THEN End(w, [me EXCEPT !.tmp = os_remove("data"), !.wrote = TRUE],
                    Success(r.val))
           ELSE End(w, [me EXCEPT !.tmp = os_remove(@)],
                    Failed(500, download_error(r, path)))
    /\ UNCHANGED <<listVars, lastWrite, sftp_client, clients, nClients, transport, channel,
                   fs, connected>>

\* the response has gone out: the thread is free
Return(w) ==
    /\ th[w].pc = "done"
    /\ th' = [th EXCEPT ![w] = Idle]
    /\ lastWrite' = IF th[w].kind = "read" THEN <<>> ELSE lastWrite
    /\ UNCHANGED <<listVars, sftp_client, clients, nClients, transport, channel, fs, connected>>

(***************************************************************************)
(* The specifications.                                                     *)
(***************************************************************************)
\* the remote trees a run may start from
InitBytes == {Utf8Encode(S_ErrorColon)}
InitTrees ==
    {f \in [TreePaths -> {Absent, Dir} \cup {File(b) : b \in InitBytes}] :
        f[P_df].t # "absent" => f[P_d].t = "dir"}

GatewayInit ==
    /\ sftp_client = 0
    /\ clients = [o \in ClientIds |-> [client |-> 0, sftp |-> 0]]
    /\ nClients = 0
    /\ transport = [h \in ClientIds |-> "none"]
    /\ channel = [h \in ClientIds |-> "none"]
    /\ fs \in InitTrees
    /\ th = [w \in Threads |-> Idle]
    /\ connected = FALSE
    /\ lastWrite = <<>>
    /\ attrsA = <<>> /\ attrsB = <<>> /\ itemsA = <<>> /\ itemsB = <<>>
    /\ listed = FALSE
    /\ JoinOff

\* requests served by concurrent threads
Init == GatewayInit /\ serial = FALSE

\* requests served one after the other
SeqInit == GatewayInit /\ serial = TRUE

Step(w) ==
    \/ Return(w)
    \/ ConnectValidate(w) \/ ConnectCloseOld(w) \/ ConnectNew(w)
    \/ ConnectCall(w) \/ ConnectFinish(w)
    \/ DisconnectClose(w) \/ DisconnectClear(w)
    \/ api_list(w) \/ api_list_call(w)
    \/ api_read(w) \/ api_read_call(w)
    \/ api_write(w) \/ api_write_call(w)
    \/ api_mkdir(w) \/ api_mkdir_call(w)
    \/ api_remove(w) \/ api_remove_call(w) \/ api_remove_act(w)
    \/ api_rename(w) \/ api_rename_call(w)
    \/ api_stat(w) \/ api_stat_call(w)
    \/ api_upload(w) \/ api_upload_call(w)
    \/ api_download(w) \/ api_download_call(w) \/ api_download_get(w)


Next == \E w \in Threads : Step(w)

Spec == Init /\ [][Next]_vars
SeqSpec == SeqInit /\ [][Next]_vars

(***************************************************************************)
(* listdir on its own: the transport hands the same attributes over in two *)
(* orders, and listdir runs on each.                                       *)
(***************************************************************************)
\* "a", "A", "B", "ab"
Names == {<<97>>, <<65>>, <<66>>, <<97, 98>>}

\* the attribute sets of a directory: no name twice
AttrSets ==
    {S \in SUBSET [filename : Names, is_dir : BOOLEAN, st_size : {0}] :
        /\ Cardinality(S) <= MaxEntries
        /\ \A a, b \in S : a.filename = b.filename => a = b}

\* the gateway at rest: no session, no request
GatewayAtRest ==
    /\ sftp_client = 0
    /\ clients = [o \in ClientIds |-> [client |-> 0, sftp |-> 0]]
    /\ nClients = 0
    /\ transport = [h \in ClientIds |-> "none"]
    /\ channel = [h \in ClientIds |-> "none"]
    /\ fs = [p \in TreePaths |-> Absent]
    /\ th = [w \in Threads |-> Idle]
    /\ connected = FALSE
    /\ serial = TRUE
    /\ lastWrite = <<>>

ListInit ==
    /\ GatewayAtRest
    /\ \E S \in AttrSets : attrsA \in Orders(S) /\ attrsB \in Orders(S)
    /\ itemsA = <<>> /\ itemsB = <<>>
    /\ listed = FALSE
    /\ JoinOff

\* SFTPClient.listdir (lines 80-92) on each of the two orders
listdir ==
    /\ ~listed
    /\ itemsA' = ListItems(P_d, attrsA)
    /\ itemsB' = ListItems(P_d, attrsB)
    /\ listed' = TRUE
    /\ UNCHANGED <<sftp_client, clients, nClients, transport, channel, fs, th,
                   connected, serial, lastWrite, attrsA, attrsB, joinVars>>

ListSpec == ListInit /\ [][listdir]_vars

(***************************************************************************)
(* _join_path on its own, statement by statement.                          *)
(***************************************************************************)
\* the strings of "/" and "a" up to MaxSegLen characters
SegmentStrings == UNION {[1..n -> {47, 97}] : n \in 0..MaxSegLen}
SegmentTuples == UNION {[1..n -> SegmentStrings] : n \in 0..MaxSegments}

JoinInit ==
    /\ GatewayAtRest
    /\ attrsA = <<>> /\ attrsB = <<>> /\ itemsA = <<>> /\ itemsB = <<>>
    /\ listed = FALSE
    /\ segments \in SegmentTuples
    /\ jpath = <<>>
    /\ loops = 0
    /\ jpc = "start"

joinFrame == UNCHANGED <<sftp_client, clients, nClients, transport, channel, fs, th,
                         connected, serial, lastWrite, attrsA, attrsB, itemsA,
                         itemsB, listed, segments>>

\* line 73: path = '/'.join(str(p) for p in parts)
join_start ==
    /\ jpc = "start"
    /\ jpath' = JoinSlash(segments)
    /\ jpc' = "loop"
    /\ UNCHANGED loops
    /\ joinFrame

\* lines 74-75: one pass of the while loop
join_loop ==
    /\ jpc = "loop"
    /\ LoopAgain(jpath)
    /\ jpath' = ReplaceDoubleSlash(jpath)
    /\ loops' = loops + 1
    /\ UNCHANGED jpc
    /\ joinFrame

\* line 76: return path
join_return ==
    /\ jpc = "loop"
    /\ ~LoopAgain(jpath)
    /\ jpc' = "done"
    /\ UNCHANGED <<jpath, loops>>
    /\ joinFrame

JoinNext == join_start \/ join_loop \/ join_return

JoinSpec == JoinInit /\ [][JoinNext]_vars

(***************************************************************************)
(* The properties.                                                         *)
(***************************************************************************)
Done(w) == th[w].pc = "done"

\* the handles of SFTPClient object o that are still open
OpenHandles(o) ==
    {<<"sftp", h>> : h \in {x \in ClientIds : clients[o].sftp = x /\ channel[x] = "open"}}
    \cup
    {<<"client", h>> : h \in {x \in ClientIds : clients[o].client = x /\ transport[x] = "open"}}

\* C1: served one after the other, while no connect has succeeded since
\* start-up or since the last disconnect, each of the nine file operations
\* answers "Not connected" (400) and reaches no primitive of a channel.
C1_NotConnectedBeforeConnect ==
    \A w \in Threads :
        (Done(w) /\ th[w].kind \in FsOps /\ ~connected)
            => (th[w].resp = NotConnected /\ th[w].prims = {})

\* C1 witness: an operation answered while no session was there, after a
\* connect request had built a client
C1_Witness ==
    \E w \in Threads :
        /\ Done(w) /\ th[w].kind \in FsOps /\ ~connected
        /\ nClients > 0

\* C2: a connect that arrives while a session is active has closed both
\* handles of that session before it builds and connects the new client,
\* whatever the close calls do.
C2_OldSessionClosedBeforeNew ==
    \A w \in Threads :
        (th[w].kind = "connect" /\ th[w].pc \in {"c_new", "c_call"} /\ th[w].old # 0)
            => OpenHandles(th[w].old) = {}

\* C3: after a disconnect request the global is empty, both handles of the
\* former session are closed, and the answer is success.
C3_DisconnectClosesAll ==
    \A w \in Threads :
        (Done(w) /\ th[w].kind = "disconnect")
            => /\ th[w].resp.result = "success"
               /\ sftp_client = 0
               /\ (th[w].old # 0 => OpenHandles(th[w].old) = {})

\* the connections whose two handles are both live
Live == {h \in ClientIds : transport[h] = "open" /\ channel[h] = "open"}
Referenced(h) ==
    sftp_client # 0 /\ clients[sftp_client].client = h /\ clients[sftp_client].sftp = h

\* C4: under every interleaving of connect and disconnect requests, at most
\* one connection has live handles, and it is the one the global holds.
C4_AtMostOneLiveSession ==
    /\ Cardinality(Live) <= 1
    /\ \A h \in Live : Referenced(h)

\* C5: when an upload or download request has ended, the temporary file it
\* made is gone, on every exit path and under every interleaving.
C5_NoTempFileLeft ==
    \A w \in Threads :
        (Done(w) /\ th[w].kind \in {"upload", "download"}) => th[w].tmp = "none"

\* C6: every file operation request with well-formed parameters ends with a
\* success or a failure result, never with an uncaught fault, under every
\* interleaving with connect and disconnect requests.
C6_NoUncaughtFault ==
    \A w \in Threads :
        (Done(w) /\ th[w].kind \in FsOps /\ th[w].cap # NotANumber)
            => th[w].resp.result \in {"success", "failure"}

\* C7: a read without byte cap that directly follows a successful write of
\* the same path answers success with the content that was written.
C7_WriteReadRoundTrip ==
    \A w \in Threads :
        (/\ Done(w) /\ th[w].kind = "read" /\ th[w].cap = -1
         /\ lastWrite # <<>> /\ lastWrite[1] = th[w].path)
            => (th[w].resp.result = "success" /\ th[w].resp.data = lastWrite[2])

\* the attribute record an item of the listing was built from
AttrOf(item) == [filename |-> item.name, is_dir |-> item.is_dir, st_size |-> item.size]
Range(s) == {s[i] : i \in 1..Len(s)}

SortedListing(items) ==
    \A i, j \in 1..Len(items) :
        i < j => /\ (items[j].is_dir => items[i].is_dir)
                 /\ (items[i].is_dir = items[j].is_dir
                       => ~StrLess(Lower(items[j].name), Lower(items[i].name)))

\* C8: whatever the order of the transport, the listing has all directories
\* before all other entries, each group in non-decreasing order of the
\* lower-cased names, and is a permutation of the transport's entries.
C8_ListingSorted ==
    listed => /\ SortedListing(itemsA)
              /\ Len(itemsA) = Len(attrsA)
              /\ {AttrOf(itemsA[i]) : i \in 1..Len(itemsA)} = Range(attrsA)

\* C8 witness: a listing of directories and files that the sort reordered
C8_Witness ==
    /\ listed /\ Len(attrsA) >= 3
    /\ \E i, j \in 1..Len(attrsA) : attrsA[i].is_dir /\ ~attrsA[j].is_dir
    /\ \E i \in 1..Len(attrsA) : itemsA[i].name # attrsA[i].filename

\* C9: the listing does not depend on the order in which the transport
\* returns the entries: two orders of the same entries, names that differ
\* only in letter case among them, give the identical sequence.
C9_ListingIndependentOfOrder == listed => itemsA = itemsB

\* C10: a download whose stat finds a directory fails with "is a
\* directory", never calls get, writes nothing to the staging file, and has
\* deleted the staging file when it answers.
C10_DownloadOfDirectory ==
    \A w \in Threads :
        (Done(w) /\ th[w].kind = "download" /\ th[w].st = "dir")
            => /\ th[w].resp = Failed(500, S_ErrorQuote \o th[w].path \o S_IsADirectory)
               /\ "get" \notin th[w].prims
               /\ ~th[w].wrote
               /\ th[w].tmp = "none"

\* C10 witness: a download of a path that is a directory has answered
C10_Witness ==
    \E w \in Threads :
        /\ Done(w) /\ th[w].kind = "download" /\ th[w].st = "dir"
        /\ fs[th[w].path].t = "dir"
        /\ "stat" \in th[w].prims
\* the session a request served alone has run on is live
LiveSession == sftp_client # 0 /\ Usable(sftp_client)

\* C11: remove on a directory that still has entries fails with "Directory
\* not empty", and the directory and its children stay in place.
C11_RemoveNonEmptyDirectory ==
    \A w \in Threads :
        (/\ Done(w) /\ th[w].kind = "remove" /\ th[w].st = "dir"
         /\ "rmdir" \in th[w].prims /\ LiveSession
         /\ Children(fs, th[w].path) # {})
            => th[w].resp = Failed(500, S_DirNotEmpty \o th[w].path)

\* a string without its slashes
NoSlashes(s) == SelectSeq(s, LAMBDA c : c # 47)

\* C12: for every tuple of segments the loop of _join_path makes no more
\* passes than the joined string has characters, and the path it returns
\* has no "//", has the characters of the "/"-joined segments apart from
\* slashes, and is returned unchanged by _join_path.
C12_JoinPathCollapses ==
    /\ loops <= Len(JoinSlash(segments))
    /\ jpc = "done" =>
         /\ ~Contains(jpath, S_DoubleSlash)
         /\ NoSlashes(jpath) = NoSlashes(JoinSlash(segments))
         /\ _join_path(<<jpath>>) = jpath
         /\ jpath = _join_path(segments)

\* C12 witness: a call whose loop ran more than once has returned
C12_Witness ==
    /\ jpc = "done" /\ loops >= 2
    /\ Len(jpath) < Len(JoinSlash(segments))

\* C13: a connect request that passed the presence check and did not end in
\* success, by a connection error or by a fault while the client object is
\* built, leaves the global empty, so that later operations answer "Not
\* connected".
C13_FailedConnectLeavesNoSession ==
    \A w \in Threads :
        (/\ Done(w) /\ th[w].kind = "connect"
         /\ th[w].resp.code # 400 /\ th[w].resp.result # "success")
            => sftp_client = 0

\* the connect request of thread v has assigned its new client to the
\* global and has not called connect() on it yet: a session without handles
ConnectUnderWay(v) ==
    /\ th[v].kind = "connect" /\ th[v].pc = "c_call"
    /\ th[v].self = sftp_client
    /\ clients[sftp_client].sftp = 0

\* C14: an operation with well-formed parameters that is served while a
\* connect request is under way answers with status 400 ("Not connected")
\* and calls no primitive: it does not run against the unfinished session.
C14_NoOperationDuringConnect ==
    \A w, v \in Threads :
        (/\ Done(w) /\ th[w].kind \in FsOps /\ th[w].cap # NotANumber
         /\ ConnectUnderWay(v))
            => (th[w].resp.code = 400 /\ th[w].prims = {})

\* the session state: the global, the client objects and their handles
session == <<sftp_client, clients, nClients, transport, channel>>

\* C15: the step in which a connect request is rejected with status 400
\* for a missing host, username or password leaves the global, the client
\* objects and all handles as they were.
C15_RejectedConnectTouchesNothing ==
    [][\A w \in Threads :
          (/\ th[w].pc = "idle" /\ th'[w].pc = "done"
           /\ th'[w].kind = "connect"
           /\ th'[w].resp = Resp("failure", 400, S_Required, <<>>))
             => UNCHANGED session]_vars

\* C15 witness: a connect request has been rejected while a session with
\* both handles open is active
C15_Witness ==
    \E w \in Threads :
        /\ Done(w) /\ th[w].kind = "connect"
        /\ th[w].resp = Resp("failure", 400, S_Required, <<>>)
        /\ sftp_client # 0 /\ th[w].old = sftp_client
        /\ Cardinality(OpenHandles(sftp_client)) = 2

\* C16: remove answers "Permission denied" when the server refuses a step of
\* the removal for access rights, the stat of the target included.
C16_RemoveClassifiesPermission ==
    \A w \in Threads :
        (/\ Done(w) /\ th[w].kind = "remove" /\ "stat" \in th[w].prims
         /\ LiveSession /\ Denied(th[w].path))
            => th[w].resp = Failed(500, S_PermDenied \o th[w].path)

\* C17: remove never sends the file-removal call for a directory nor the
\* directory-removal call for a file, whatever other requests do to the
\* path in between.  (A call that succeeded matched the type; after one
\* that the server refused, the tree is as the call met it.)
C17_RemovePrimitiveMatchesType ==
    \A w \in Threads :
        (/\ Done(w) /\ th[w].kind = "remove" /\ th[w].path \in TreePaths
         /\ th[w].resp.result = "failure"
         /\ th[w].resp.msg # S_Error \o X_SocketClosed)
            => /\ "remove" \in th[w].prims => fs[th[w].path].t # "dir"
               /\ "rmdir" \in th[w].prims => fs[th[w].path].t # "file"

\* C18: when a connect request has answered with a connection error, the
\* handles its attempt opened are closed again.
C18_FailedConnectClosesItsHandles ==
    \A w \in Threads :
        (/\ Done(w) /\ th[w].kind = "connect" /\ th[w].self # 0
         /\ th[w].resp.result = "failure" /\ th[w].resp.code = 500)
            => (transport[th[w].self] # "open" /\ channel[th[w].self] # "open")

\* C19: a remove or download request sends all its remote calls on one
\* channel, that of the session it was invoked on, whatever connect
\* requests do between its steps.
C19_OneSessionPerOperation ==
    \A w \in Threads :
        (Done(w) /\ th[w].kind \in {"remove", "download"})
            => Cardinality(th[w].chans) <= 1
====
